---- MODULE Spec2Model ----
(***************************************************************************)
(* Change Impact Forecaster: the risk scoring engine (src/src/cif).        *)
(*                                                                         *)
(* Three specifications share the module:                                  *)
(*   Spec           one call of assess_change per behaviour: a validated   *)
(*                  ChangeInput and a dependency graph snapshot go in, a   *)
(*                  ForecastResult or an HTTP 422 comes out;               *)
(*   TraversalSpec  one call of find_indirect_services run one iteration   *)
(*                  of its while loop at a time, followed by a second call *)
(*                  on the first call's output;                            *)
(*   FairTraversalSpec  one such call under the fairness of a running      *)
(*                  loop.                                                  *)
(*                                                                         *)
(* Service names are modelled by the numbers 1..NumServices; the order of  *)
(* the numbers is the lexicographic order of the names (Python compares    *)
(* str with <), which is all that sorted() reads of a name.                *)
(***************************************************************************)
EXTENDS Integers, Sequences, FiniteSets, TLC

VARIABLES
    pc,               \* position of the call being modelled
    graph,            \* the snapshot load_dependency_graph returned
    change,           \* the ChangeInput of the request
    status_code,      \* HTTP status of the response to /assess (0: none yet)
    detail,           \* <<detail>> of the HTTPException raised, else << >>
    forecast,         \* <<ForecastResult>> returned, else << >>
    direct_services,  \* the argument of find_indirect_services
    impacted,         \* its local set
    q,                \* its local deque
    returned,         \* <<list>> it returned, else << >>
    first_returned,   \* the list the first of the two calls returned
    call,             \* 1: the call on the direct list, 2: the call on its output
    enqueued          \* history: how often each name was put on q in this call

vars == <<pc, graph, change, status_code, detail, forecast, direct_services,
          impacted, q, returned, first_returned, call, enqueued>>

assessVars == <<change, status_code, detail, forecast>>
traversalVars == <<direct_services, impacted, q, returned, first_returned, call, enqueued>>

-----------------------------------------------------------------------------
(* Bounds of the model *)

\* find_indirect_services is run on graphs over NumServices names with at most
\* MaxEdges depends_on entries and on direct lists of at most MaxDirect names;
\* assess_change on snapshots over NumSnapshotServices names with at most
\* MaxSnapshotEdges entries and on services_touched of up to ManyServices names.
NumServices == 3
MaxEdges == 2
MaxDirect == 2
NumSnapshotServices == 2
MaxSnapshotEdges == 1

\* "if len(change.services_touched) >= 3": the length from which SVC_MANY fires.
ManyServices == 3

Services == 1..NumServices
SnapshotServices == 1..NumSnapshotServices

\* The history variable enqueued counts up to here and stays there.
EnqueuedCap == MaxDirect + 2

-----------------------------------------------------------------------------
(* Helpers: Python built-ins the engine uses *)

\* sorted(xs) on a list (duplicates kept): insertion sort, ascending.
RECURSIVE InsertSorted(_, _)
InsertSorted(x, s) ==
    IF s = << >> THEN <<x>>
    ELSE IF x <= Head(s) THEN <<x>> \o s
    ELSE <<Head(s)>> \o InsertSorted(x, Tail(s))

RECURSIVE sorted(_)
sorted(xs) ==
    IF xs = << >> THEN << >>
    ELSE InsertSorted(Head(xs), sorted(Tail(xs)))

Range(s) == {s[i] : i \in DOMAIN s}

\* Iterating a set: Python fixes no order (it changes with the hash seed), so
\* this is every order in which the elements of S can come out, each once.
SetToSeq(S) == {o \in [1..Cardinality(S) -> S] : Range(o) = S}

\* sorted(S) on a set: the list sorted() builds from whichever order the
\* iteration took. Every order sorts to the same list, so the set below has one
\* element and the CHOOSE settles nothing.
sorted_set(S) == CHOOSE r \in {sorted(o) : o \in SetToSeq(S)} : TRUE

Count(x, s) == Cardinality({i \in DOMAIN s : s[i] = x})

-----------------------------------------------------------------------------
(* engine.py: the dependency graph *)

\* A graph is the list of the mapping's items in the mapping's order:
\* <<[service |-> name, depends_on |-> set of names], ...>>, keys distinct.
\* depends_on is read only through "current in deps", so a set models the list.
known_services(g) == {g[i].service : i \in DOMAIN g}

\* Variant: the scan marks a dependent impacted and never queues it.
RECURSIVE ScanItems_no_append(_, _, _, _)
ScanItems_no_append(current, g, i, st) ==
    IF i > Len(g) THEN st
    ELSE IF current \in g[i].depends_on /\ g[i].service \notin st.impacted
         THEN ScanItems_no_append(current, g, i + 1,
                                  [impacted |-> st.impacted \cup {g[i].service}, q |-> st.q])
         ELSE ScanItems_no_append(current, g, i + 1, st)

\* Variant: the scan stops at the first dependent it adds.
RECURSIVE ScanItems_break(_, _, _, _)
ScanItems_break(current, g, i, st) ==
    IF i > Len(g) THEN st
    ELSE IF current \in g[i].depends_on /\ g[i].service \notin st.impacted
         THEN [impacted |-> st.impacted \cup {g[i].service}, q |-> Append(st.q, g[i].service)]
         ELSE ScanItems_break(current, g, i + 1, st)

\* Variant: the scan without the "not in impacted" guard.
RECURSIVE ScanItems_no_guard(_, _, _, _)
ScanItems_no_guard(current, g, i, st) ==
    IF i > Len(g) THEN st
    ELSE IF current \in g[i].depends_on
         THEN ScanItems_no_guard(current, g, i + 1,
                                 [impacted |-> st.impacted \cup {g[i].service},
                                  q |-> Append(st.q, g[i].service)])
         ELSE ScanItems_no_guard(current, g, i + 1, st)

\* The for loop of find_indirect_services from item i on, for one dequeued name.
RECURSIVE ScanItems(_, _, _, _)
ScanItems(current, g, i, st) ==
    IF i > Len(g) THEN st
    ELSE LET service == g[i].service
             deps == g[i].depends_on
         IN IF current \in deps /\ service \notin st.impacted
            THEN ScanItems(current, g, i + 1,
                           [impacted |-> st.impacted \cup {service},
                            q |-> Append(st.q, service)])
            ELSE ScanItems(current, g, i + 1, st)

\* Variant: the iteration reads q[0] and leaves it on the queue.
WhileBody_peek(g, st) ==
    ScanItems(Head(st.q), g, 1, [impacted |-> st.impacted, q |-> st.q])

\* One iteration of "while q": popleft, then the scan of every item.
WhileBody(g, st) ==
    ScanItems(Head(st.q), g, 1, [impacted |-> st.impacted, q |-> Tail(st.q)])

RECURSIVE WhileLoop(_, _)
WhileLoop(g, st) ==
    IF st.q = << >> THEN st ELSE WhileLoop(g, WhileBody(g, st))

find_indirect_services(direct, g) ==
    sorted_set(WhileLoop(g, [impacted |-> {}, q |-> direct]).impacted)

-----------------------------------------------------------------------------
(* models.py: ChangeInput *)

Environment == {"dev", "staging", "prod"}
ChangeType == {"config", "deployment", "infra", "database", "access"}
RollbackQuality == {"none", "partial", "tested"}
MonitoringPlan == {"basic", "strong"}

\* window_start, window_end: Optional[datetime]; of a datetime the engine reads
\* weekday() (Monday = 0 ... Sunday = 6) and hour only. None is present = FALSE.
\* The datetimes modelled are whole hours of one week, Monday to Sunday.
None == [present |-> FALSE, weekday |-> 0, hour |-> 0]
datetime(wd, h) == [present |-> TRUE, weekday |-> wd, hour |-> h]

\* a <= b on two datetimes of that week.
datetime_le(a, b) == a.weekday * 24 + a.hour <= b.weekday * 24 + b.hour

\* The model validator of ChangeInput: TRUE when no ValueError is raised. A
\* datetime is truthy, so the window is compared when both ends are given.
validate_change(c) ==
    /\ c.services_touched # << >>
    /\ ~(/\ c.window_start.present
          /\ c.window_end.present
          /\ datetime_le(c.window_end, c.window_start))
    /\ ~(Len(c.services_touched) > 10)

-----------------------------------------------------------------------------
(* engine.py: the scorer *)

\* Variant: 18:00 itself counts as staffed.
is_risky_window_late(window_start, environment) ==
    IF environment # "prod" \/ ~window_start.present THEN FALSE
    ELSE IF window_start.weekday >= 5 THEN TRUE
    ELSE window_start.hour < 8 \/ window_start.hour > 18

is_risky_window(window_start, environment) ==
    IF environment # "prod" \/ ~window_start.present THEN FALSE
    ELSE IF window_start.weekday >= 5 THEN TRUE
    ELSE window_start.hour < 8 \/ window_start.hour >= 18

confidence_level(c, indirect_services) ==
    LET p1 == IF c.window_start.present THEN 1 ELSE 0
        p2 == IF c.rollback_quality = "tested" THEN 2
              ELSE IF c.rollback_quality = "partial" THEN 1 ELSE 0
        p3 == IF c.monitoring_plan = "strong" THEN 2 ELSE 1
        indirect_count == Len(indirect_services)
        p4 == IF indirect_count = 0 THEN 2
              ELSE IF indirect_count <= 2 THEN 1 ELSE 0
        points == p1 + p2 + p3 + p4
    IN IF points >= 7 THEN "high"
       ELSE IF points >= 4 THEN "medium"
       ELSE "low"

\* Variant: high from 60 on.
_risk_level_from_60(score) ==
    IF score >= 60 THEN "high"
    ELSE IF score >= 35 THEN "medium"
    ELSE "low"

_risk_level(score) ==
    IF score >= 70 THEN "high"
    ELSE IF score >= 35 THEN "medium"
    ELSE "low"

type_weights ==
    [config |-> 10, deployment |-> 15, infra |-> 25, database |-> 30, access |-> 20]

Factor(code, message, weight) == [code |-> code, message |-> message, weight |-> weight]

\* Variant: no upper clamp.
min_second(a, b) == b

max(a, b) == IF a >= b THEN a ELSE b
min(a, b) == IF a <= b THEN a ELSE b

\* "Deduplicate mitigations while preserving order."
RECURSIVE Dedup(_, _, _)
Dedup(ms, seen, clean) ==
    IF ms = << >> THEN clean
    ELSE IF Head(ms) \notin seen
         THEN Dedup(Tail(ms), seen \cup {Head(ms)}, Append(clean, Head(ms)))
         ELSE Dedup(Tail(ms), seen, clean)

When(cond, item) == IF cond THEN <<item>> ELSE << >>

\* Variant: a tested rollback adds 15 instead of taking it off.
rollback_delta_unsigned(rollback) ==
    IF rollback = "tested" THEN 15
    ELSE IF rollback = "partial" THEN 0
    ELSE IF rollback = "none" THEN 15
    ELSE 0

\* The if/elif chain on rollback: what it adds to score.
rollback_delta(rollback) ==
    IF rollback = "tested" THEN -15
    ELSE IF rollback = "partial" THEN 0
    ELSE IF rollback = "none" THEN 15
    ELSE 0

\* The body of assess_change after the unknown-service check:
\* the rule table, the clamp, the level, the confidence and the result.
Forecast(c, indirect_services) ==
    LET env == c.environment
        risky == is_risky_window(c.window_start, env)
        change_type == c.change_type
        w == IF change_type \in DOMAIN type_weights THEN type_weights[change_type] ELSE 10
        many == Len(c.services_touched) >= ManyServices
        blast == indirect_services # << >>
        indirect_count == Len(indirect_services)
        rollback == c.rollback_quality
        monitoring == c.monitoring_plan
        \* score, as the running "score += ..." leaves it before the clamp
        score == 0
                 + (IF env = "prod" THEN 30 ELSE 0)
                 + (IF risky THEN 10 ELSE 0)
                 + w
                 + (IF many THEN 15 ELSE 0)
                 + (IF blast THEN 10 ELSE 0)
                 + rollback_delta(rollback)
                 + (IF monitoring = "strong" THEN -10 ELSE 0)
        factors ==
            When(env = "prod", Factor("ENV_PROD", "Production change", 30))
            \o When(risky, Factor("RISKY_WINDOW", "Scheduled out-of-hours or on a weekend", 10))
            \o <<Factor("TYPE", "Change type: " \o change_type, w)>>
            \o When(many, Factor("SVC_MANY", "Touches 3+ services", 15))
            \o When(blast, Factor("BLAST_INDIRECT",
                                  "Indirectly impacts " \o ToString(indirect_count)
                                      \o " additional service(s)", 10))
            \o When(rollback = "tested", Factor("RB_TESTED", "Rollback is tested", -15))
            \o When(rollback = "none", Factor("RB_NONE", "No rollback plan", 15))
            \o When(monitoring = "strong", Factor("MON_STRONG", "Strong monitoring plan", -10))
        mitigations ==
            When(env = "prod", "Make sure rollback steps are written and tested before starting.")
            \o When(risky, "If possible, schedule during staffed hours or add extra on-call cover.")
            \o When(many, "Consider splitting the change into smaller steps.")
            \o When(rollback = "none", "Add at least a basic rollback plan (and validate it).")
            \o When(monitoring # "strong",
                    "Add extra monitoring (dashboards/alerts) for the change window.")
        missing_info ==
            When(~c.window_start.present, "window_start not provided")
            \o When(rollback = "none", "no rollback plan")
            \o When(monitoring # "strong", "monitoring plan is not strong")
        confidence_reasons ==
            When(c.window_start.present, "change window specified")
            \o When(indirect_count = 0, "no indirect service impact")
            \o When(indirect_count # 0 /\ indirect_count <= 2, "limited indirect service impact")
            \o When(rollback = "tested", "rollback plan tested")
            \o When(rollback = "partial", "rollback plan partially defined")
            \o When(monitoring = "strong", "strong monitoring in place")
        clamped == max(0, min(100, score))
    IN [risk_score |-> clamped,
        risk_level |-> _risk_level(clamped),
        confidence |-> confidence_level(c, indirect_services),
        blast_radius |-> [direct |-> c.services_touched, indirect |-> indirect_services],
        factors |-> factors,
        mitigations |-> Dedup(mitigations, {}, << >>),
        assumptions |-> <<"Service dependencies are loaded from data/dependencies.yaml.",
                          "Blast radius is estimated using direct + downstream dependencies.">>,
        missing_info |-> missing_info,
        confidence_reasons |-> confidence_reasons]

\* Variant: only the first unknown name is kept.
unknown_services_first(c, g) ==
    LET all == SelectSeq(c.services_touched, LAMBDA s : s \notin known_services(g))
    IN IF all = << >> THEN << >> ELSE <<Head(all)>>

\* The names of services_touched that are not keys of the graph, in list order.
unknown_services(c, g) ==
    SelectSeq(c.services_touched, LAMBDA s : s \notin known_services(g))

\* assess_change: what the call ends in. status_code 422 is the HTTPException
\* (detail.unknown is sorted(unknown), the names the message joins), 200 the
\* ForecastResult that api.assess returns.
assess_change(c, g) ==
    LET known == known_services(g)
        unknown == unknown_services(c, g)
    IN IF unknown # << >>
       THEN [status_code |-> 422,
             detail |-> <<[error |-> "unknown_service",
                           unknown |-> sorted(unknown),
                           known_services |-> sorted_set(known),
                           hint |-> "Check data/dependencies.yaml or fix the service name in services_touched."]>>,
             forecast |-> << >>]
       ELSE [status_code |-> 200,
             detail |-> << >>,
             forecast |-> <<Forecast(c, find_indirect_services(c.services_touched, g))>>]

-----------------------------------------------------------------------------
(* The inputs enumerated *)

\* The graph with keys K and depends_on entries E (pairs <<service, dependency>>),
\* its items listed in name order.
GraphOf(K, E) ==
    LET keys == sorted_set(K)
    IN [i \in 1..Len(keys) |->
           [service |-> keys[i],
            depends_on |-> {e[2] : e \in {d \in E : d[1] = keys[i]}}]]

\* Every graph over the names S with at most n depends_on entries in all; a
\* dependency need not be a key itself. The empty graph is what
\* load_dependency_graph returns for a missing or malformed file.
GraphsOver(S, n) ==
    {GraphOf(ke[1], ke[2]) : ke \in
        {x \in (SUBSET S) \X (SUBSET (S \X S)) :
            /\ Cardinality(x[2]) <= n
            /\ \A e \in x[2] : e[1] \in x[1]}}

\* The graphs find_indirect_services is run on.
Graphs == GraphsOver(Services, MaxEdges)

\* The snapshots assess_change is run on: every dependency is a key. A name
\* that is no key is never dequeued in an accepted request (services_touched
\* and impacted hold keys only), so such an entry changes no response.
Snapshots ==
    {g \in GraphsOver(SnapshotServices, MaxSnapshotEdges) :
        \A i \in DOMAIN g : g[i].depends_on \subseteq known_services(g)}

SeqsUpTo(S, n) == UNION {[1..k -> S] : k \in 0..n}

\* No window, a weekday in staffed hours, a weekday at 18:00, a Saturday.
WindowStarts == {None, datetime(2, 10), datetime(4, 18), datetime(5, 10)}

\* No end, or the Friday at 18:00: after the first start, equal to the second,
\* before the third.
WindowEnds == {None, datetime(4, 18)}

RawInputs ==
    [change_type : ChangeType,
     environment : Environment,
     window_start : WindowStarts,
     window_end : WindowEnds,
     services_touched : SeqsUpTo(SnapshotServices, ManyServices),
     rollback_quality : RollbackQuality,
     monitoring_plan : MonitoringPlan]

\* The requests pydantic accepts.
ChangeInputs == {c \in RawInputs : validate_change(c)}

-----------------------------------------------------------------------------
(* Spec: POST /assess *)

NoChange ==
    [change_type |-> "config", environment |-> "dev", window_start |-> None,
     window_end |-> None,
     services_touched |-> << >>, rollback_quality |-> "partial",
     monitoring_plan |-> "basic"]

TraversalIdle ==
    /\ direct_services = << >>
    /\ impacted = {}
    /\ q = << >>
    /\ returned = << >>
    /\ first_returned = << >>
    /\ call = 0
    /\ enqueued = [s \in Services |-> 0]

Init ==
    /\ pc = "request"
    /\ graph \in Snapshots
    /\ change \in ChangeInputs
    /\ status_code = 0
    /\ detail = << >>
    /\ forecast = << >>
    /\ TraversalIdle

\* api.assess: the whole of assess_change on the request.
Assess ==
    /\ pc = "request"
    /\ LET r == assess_change(change, graph)
       IN /\ status_code' = r.status_code
          /\ detail' = r.detail
          /\ forecast' = r.forecast
    /\ pc' = "responded"
    /\ UNCHANGED <<graph, change>>
    /\ UNCHANGED traversalVars

Next == Assess

Spec == Init /\ [][Next]_vars

-----------------------------------------------------------------------------
(* TraversalSpec: find_indirect_services, one while iteration at a time *)

\* The same mapping with its items in the opposite order (a dict keeps the
\* order of the file).
Reversed(g) == [i \in DOMAIN g |-> g[Len(g) + 1 - i]]

\* A call of find_indirect_services on one of the graphs gs.
CallOn(gs) ==
    /\ pc = "call"
    /\ graph \in gs
    /\ direct_services \in SeqsUpTo(Services, MaxDirect)
    /\ call = 1
    /\ impacted = {}
    /\ q = << >>
    /\ returned = << >>
    /\ first_returned = << >>
    /\ enqueued = [s \in Services |-> 0]
    /\ change = NoChange
    /\ status_code = 0
    /\ detail = << >>
    /\ forecast = << >>

TraversalInit == CallOn(Graphs \cup {Reversed(g) : g \in Graphs})

\* impacted = set(); q = deque(direct_services)
Enter ==
    /\ pc = "call"
    /\ impacted' = {}
    /\ q' = direct_services
    /\ enqueued' = [s \in Services |-> Count(s, direct_services)]
    /\ pc' = "while"
    /\ UNCHANGED <<graph, direct_services, returned, first_returned, call>>
    /\ UNCHANGED assessVars

\* One iteration of the while loop: popleft and the scan of graph.items().
Iterate ==
    /\ pc = "while"
    /\ q # << >>
    /\ LET st == WhileBody(graph, [impacted |-> impacted, q |-> q])
       IN /\ impacted' = st.impacted
          /\ q' = st.q
          /\ enqueued' = [s \in Services |->
                             LET n == enqueued[s] + Count(s, st.q) - Count(s, Tail(q))
                             IN IF n > EnqueuedCap THEN EnqueuedCap ELSE n]
    /\ UNCHANGED <<pc, graph, direct_services, returned, first_returned, call>>
    /\ UNCHANGED assessVars

\* The loop condition fails: return sorted(impacted).
Return ==
    /\ pc = "while"
    /\ q = << >>
    /\ \E o \in SetToSeq(impacted) : returned' = <<sorted(o)>>
    /\ pc' = "returned"
    /\ UNCHANGED <<graph, direct_services, impacted, q, first_returned, call, enqueued>>
    /\ UNCHANGED assessVars

\* The second call: the first call's output as the direct list, same graph.
CallOnOutput ==
    /\ pc = "returned"
    /\ call = 1
    /\ first_returned' = returned[1]
    /\ direct_services' = returned[1]
    /\ returned' = << >>
    /\ call' = 2
    /\ pc' = "call"
    /\ enqueued' = [s \in Services |-> 0]
    /\ UNCHANGED <<graph, impacted, q>>
    /\ UNCHANGED assessVars

TraversalNext == Enter \/ Iterate \/ Return \/ CallOnOutput

TraversalSpec == TraversalInit /\ [][TraversalNext]_vars

\* One call alone. A call that has started keeps running: the loop is plain
\* sequential code.
CallNext == Enter \/ Iterate \/ Return

FairTraversalInit == CallOn(Graphs)

FairTraversalSpec == FairTraversalInit /\ [][CallNext]_vars /\ WF_vars(CallNext)

-----------------------------------------------------------------------------
(* What the claims are stated with *)

Responded == pc = "responded"
Accepted == Responded /\ status_code = 200
Result == forecast[1]

\* The services that list one of S in depends_on.
DirectDependents(S, g) ==
    {g[i].service : i \in {j \in DOMAIN g : g[j].depends_on \cap S # {}}}

\* The services with a depends_on path (one hop or more) to one of D:
\* the least X with X = DirectDependents(D \cup X).
RECURSIVE DependentsFrom(_, _, _)
DependentsFrom(D, g, X) ==
    LET Y == DirectDependents(D \cup X, g)
    IN IF Y = X THEN X ELSE DependentsFrom(D, g, Y)

TransitiveDependents(D, g) == DependentsFrom(D, g, {})

StrictlyAscending(s) == \A i \in 1..(Len(s) - 1) : s[i] < s[i + 1]

RECURSIVE SumWeights(_)
SumWeights(fs) == IF fs = << >> THEN 0 ELSE Head(fs).weight + SumWeights(Tail(fs))

Codes(fs) == [i \in DOMAIN fs |-> fs[i].code]

\* The rule table of the scorer, in firing order: code, condition, weight.
RuleTable(c, g) ==
    LET w == c.window_start
        offHours == w.present /\ (w.weekday \in {5, 6} \/ w.hour \notin 8..17)
        typeWeight == CASE c.change_type = "config" -> 10
                        [] c.change_type = "deployment" -> 15
                        [] c.change_type = "infra" -> 25
                        [] c.change_type = "database" -> 30
                        [] c.change_type = "access" -> 20
                        [] OTHER -> 10
    IN << [code |-> "ENV_PROD", holds |-> c.environment = "prod", weight |-> 30],
          [code |-> "RISKY_WINDOW", holds |-> c.environment = "prod" /\ offHours, weight |-> 10],
          [code |-> "TYPE", holds |-> TRUE, weight |-> typeWeight],
          [code |-> "SVC_MANY", holds |-> Len(c.services_touched) >= 3, weight |-> 15],
          [code |-> "BLAST_INDIRECT",
           holds |-> TransitiveDependents(Range(c.services_touched), g) # {}, weight |-> 10],
          [code |-> "RB_TESTED", holds |-> c.rollback_quality = "tested", weight |-> -15],
          [code |-> "RB_NONE", holds |-> c.rollback_quality = "none", weight |-> 15],
          [code |-> "MON_STRONG", holds |-> c.monitoring_plan = "strong", weight |-> -10] >>

FiredRules(c, g) == SelectSeq(RuleTable(c, g), LAMBDA r : r.holds)

CodeAndWeight(fs) == [i \in DOMAIN fs |-> <<fs[i].code, fs[i].weight>>]

Clamp(n) == IF n < 0 THEN 0 ELSE IF n > 100 THEN 100 ELSE n

\* risk_score of the same request with another rollback_quality.
ScoreWithRollback(rb) ==
    assess_change([change EXCEPT !.rollback_quality = rb], graph).forecast[1].risk_score

-----------------------------------------------------------------------------
(* Claims on assess_change (Spec) *)

\* C1: no service of services_touched appears in blast_radius.indirect of the
\* result, also when it depends on another service of services_touched.
C1_IndirectExcludesTouched ==
    Accepted =>
        Range(Result.blast_radius.indirect) \cap Range(change.services_touched) = {}

\* C2: factors holds exactly the rules of the rule table whose condition holds,
\* in table order with the table's weights (TYPE once), and risk_score is the
\* sum of the weights in factors clamped to [0, 100].
C2_FactorsAreFiredRules ==
    Accepted =>
        /\ CodeAndWeight(Result.factors) = CodeAndWeight(FiredRules(change, graph))
        /\ Count("TYPE", Codes(Result.factors)) = 1
        /\ Result.risk_score = Clamp(SumWeights(Result.factors))

C2_Witness ==
    /\ Accepted
    /\ Codes(Result.factors) = <<"ENV_PROD", "RISKY_WINDOW", "TYPE", "SVC_MANY",
                                 "BLAST_INDIRECT", "RB_TESTED", "MON_STRONG">>
    /\ Result.risk_score = 70
    /\ Range(Result.blast_radius.indirect) \cap Range(change.services_touched) = {}

\* C3: a request naming a service that is not a key of the graph (the empty
\* graph included) ends in the 422 unknown_service error, which carries exactly
\* the unrecognized names and all the graph's keys, and no ForecastResult.
C3_UnknownServiceRejected ==
    (Responded /\ ~(Range(change.services_touched) \subseteq known_services(graph))) =>
        /\ status_code = 422
        /\ Len(detail) = 1
        /\ detail[1].error = "unknown_service"
        /\ Range(detail[1].unknown) = Range(change.services_touched) \ known_services(graph)
        /\ Range(detail[1].known_services) = known_services(graph)
        /\ StrictlyAscending(detail[1].known_services)
        /\ forecast = << >>

C3_Witness ==
    /\ Responded
    /\ status_code = 422
    /\ graph # << >>
    /\ Len(detail[1].unknown) = 2
    /\ Range(change.services_touched) \cap known_services(graph) # {}

\* the same on the empty graph: every name is unknown
C3_EmptyGraph ==
    /\ Responded
    /\ status_code = 422
    /\ graph = << >>
    /\ detail[1].known_services = << >>
    /\ Cardinality(Range(detail[1].unknown)) = 2

\* C4: the risk_score of every result lies in 0..100.
C4_ScoreBounds ==
    Accepted => (0 <= Result.risk_score /\ Result.risk_score <= 100)

C4_Witness ==
    /\ Accepted
    /\ SumWeights(Result.factors) > 100
    /\ Result.risk_score = 100
    /\ Range(Result.blast_radius.indirect) \cap Range(change.services_touched) = {}

\* the other end: weights that sum below 0 and a score of 0
C4_ClampedAtZero ==
    /\ Accepted
    /\ SumWeights(Result.factors) < 0
    /\ Result.risk_score = 0

\* C5: with all else equal, risk_score under rollback tested <= under partial
\* <= under none, the clamp included.
C5_RollbackMonotonic ==
    Accepted =>
        /\ change.rollback_quality = "tested" =>
              Result.risk_score <= ScoreWithRollback("partial")
        /\ change.rollback_quality = "partial" =>
              Result.risk_score <= ScoreWithRollback("none")

C5_Witness ==
    /\ Accepted
    /\ change.rollback_quality = "partial"
    /\ ScoreWithRollback("tested") < Result.risk_score
    /\ Result.risk_score < ScoreWithRollback("none")

\* C6 as claimed: some accepted request and graph give confidence = high
\* together with risk_level = high (asked where a request is about to be
\* assessed: of all the requests and graphs that may be the one at hand).
C6_HighConfidenceHighRiskExists ==
    pc = "request" =>
        \E c \in ChangeInputs, g \in Snapshots :
            LET r == assess_change(c, g)
            IN /\ r.status_code = 200
               /\ r.forecast[1].confidence = "high"
               /\ r.forecast[1].risk_level = "high"

\* C6 as amended: a result of confidence = high has risk_score <= 60, so its
\* risk_level is low or medium, never high.
C6_HighConfidenceCapsRisk ==
    (Accepted /\ Result.confidence = "high") =>
        /\ Result.risk_score <= 60
        /\ Result.risk_level \in {"low", "medium"}

C6_Witness ==
    /\ Accepted
    /\ Result.confidence = "high"
    /\ change.environment = "prod"
    /\ change.change_type = "database"
    /\ Result.risk_score = 60
    /\ Result.risk_level = "medium"

-----------------------------------------------------------------------------
(* Claims on find_indirect_services (TraversalSpec) *)

Returned == pc = "returned"

\* C7: the list returned is sorted and duplicate-free, holds every service
\* outside the direct list with a depends_on path to a direct service, and
\* holds no service without such a path.
C7_ReturnsTransitiveDependents ==
    Returned =>
        LET out == returned[1]
            dependents == TransitiveDependents(Range(direct_services), graph)
        IN /\ StrictlyAscending(out)
           /\ (dependents \ Range(direct_services)) \subseteq Range(out)
           /\ Range(out) \subseteq dependents

\* a chain: a service two hops from the direct list, outside it, is returned
C7_Witness ==
    /\ Returned
    /\ call = 1
    /\ Len(returned[1]) >= 2
    /\ \E s \in Range(returned[1]) \ Range(direct_services) :
          \A i \in DOMAIN graph :
              graph[i].service = s => graph[i].depends_on \cap Range(direct_services) = {}

\* C8: the call on the first call's output returns no service outside it.
C8_OutputClosed ==
    (Returned /\ call = 2) => Range(returned[1]) \subseteq Range(first_returned)

C8_Witness ==
    /\ Returned
    /\ call = 2
    /\ Len(first_returned) >= 2
    /\ returned[1] # << >>
    /\ returned[1] # first_returned

\* C9: every call, cycles and self-dependencies included, reaches the empty
\* queue and returns.
C9_Terminates == (pc = "call") ~> (pc = "returned")

\* a call returned on a graph with a two-service cycle, both reached
C9_Witness ==
    /\ Returned
    /\ \E i, j \in DOMAIN graph :
          /\ i # j
          /\ graph[i].service \in graph[j].depends_on
          /\ graph[j].service \in graph[i].depends_on
          /\ {graph[i].service, graph[j].service} \subseteq impacted

\* a call returned on a graph where a reached service depends on itself
C9_SelfDependency ==
    /\ Returned
    /\ \E i \in DOMAIN graph :
          graph[i].service \in graph[i].depends_on /\ graph[i].service \in impacted

\* C10 as claimed: counting the seeding, no service is put on q more than once.
C10_EnqueuedAtMostOnce ==
    \A s \in Services : enqueued[s] <= 1

\* C10 as amended: the loop appends no service more than once; counting the
\* seeding, a service is put on q at most once more than it occurs in the
\* direct list.
C10_AppendedAtMostOnce ==
    pc \in {"while", "returned"} =>
        \A s \in Services :
            /\ enqueued[s] - Count(s, direct_services) \in {0, 1}
            /\ (enqueued[s] - Count(s, direct_services) = 1) => s \in impacted

C10_Witness ==
    /\ Returned
    /\ \E s \in Services : Count(s, direct_services) = 1 /\ enqueued[s] = 2
    /\ \E s \in Services : Count(s, direct_services) = 0 /\ enqueued[s] = 1

====
